---------------------------- MODULE Spec2Model ----------------------------
(***************************************************************************)
(* Three parts of NeoMutt, each with its own specification over one        *)
(* initial state: the GNU dbm backend of the key/value Store               *)
(* (src/store/gdbm.c, Spec), the validator of maildir_field_delimiter      *)
(* (src/maildir/config.c, SpecMaildir) and the data shared by the Index    *)
(* and its friends (src/index/shared_data.c, SpecIndex).  What follows is  *)
(* about the Store; the other two parts are introduced where they begin.   *)
(*                                                                         *)
(* State: the caller's handle reference, the engine connection behind it,  *)
(* the files the engine persists to, the caller's reference to the buffer  *)
(* a fetch returned, and a record of the last call made through the        *)
(* backend (its arguments, its result and the engine calls it made).       *)
(*                                                                         *)
(* Byte buffers.  A key or value is a buffer of `len' bytes, all equal to  *)
(* the byte `fill'.  Two buffers are byte-equal iff they have the same     *)
(* length and, when that length is not zero, the same fill byte.  The      *)
(* prefix of length n of such a buffer is the buffer (fill, n), which is   *)
(* what the engine reads when it is handed a pointer and a dsize of n.     *)
(*                                                                         *)
(* Lengths.  size_t values are kept in radix 2^31: [hi, lo] stands for     *)
(* hi * 2^31 + lo with lo in 0..INT_MAX, so that the lengths on both sides *)
(* of INT_MAX, and their conversion to the engine's 32-bit signed dsize,   *)
(* are computed exactly.                                                   *)
(***************************************************************************)
EXTENDS Integers, Sequences, FiniteSets, TLC

VARIABLES
  h,       \* the caller's StoreHandle reference: NULL or the pointer DB
  conn,    \* the engine's connection object (GDBM_FILE) behind DB
  files,   \* path -> NoFile or the records persisted in the file
  perm,    \* path -> what the file system lets this process do with the path
  expect,  \* path -> the records the caller was told are stored (from return codes)
  last,    \* the last call through the backend
  p,       \* the caller's reference to a fetched buffer: NULL or the pointer BUF
  mem,     \* the buffer p was last given: whether allocated, times released
  maildir_field_delimiter_changed,  \* the static flag of the validator
  mdset,   \* whether a validator call with a value other than the initial one succeeded
  mdlast,  \* the last call of the validator
  wdata,   \* the reference of the window to its IndexSharedData: NULL or SHARED
  shared,  \* the IndexSharedData behind SHARED
  notifier,     \* the Notify object behind shared->notify
  NeoMutt_sub,  \* NeoMutt->sub
  cur,     \* the Email the callers selected and no change of mailbox cleared
  lastmv,  \* the view of the last index_shared_data_set_mview
  ilast    \* the last call of a function of index/shared_data.c

store_vars == <<h, conn, files, perm, expect, last, p, mem>>
maildir_vars == <<maildir_field_delimiter_changed, mdset, mdlast>>
index_vars == <<wdata, shared, notifier, NeoMutt_sub, cur, lastmv, ilast>>
vars == <<store_vars, maildir_vars, index_vars>>

----------------------------------------------------------------------------
(* Numbers *)

INT_MAX == 2147483647

\* The largest high limb of a size_t the inputs are drawn from.
HiMax == 3

\* The number of distinct byte values the value buffers are filled with.
NValBytes == 2

NULL == "NULL"
DB == "DB"
BUF == "BUF"
Nil == "-"

SizeT(hi, lo) == [hi |-> hi, lo |-> lo]

Zero == SizeT(0, 0)

\* n > m on size_t values
SizeGt(n, m) == n.hi > m.hi \/ (n.hi = m.hi /\ n.lo > m.lo)

\* n >= m on size_t values
SizeGe(n, m) == n.hi > m.hi \/ (n.hi = m.hi /\ n.lo >= m.lo)

\* INT_MAX promoted to size_t for the comparison (klen > INT_MAX)
IntMaxAsSize == SizeT(0, INT_MAX)

\* The conversion of a size_t to int done by the assignment `dsize = klen':
\* the low 32 bits of the value, read as a two's complement number.
SizeToInt(n) == IF n.hi % 2 = 1 THEN n.lo - INT_MAX - 1 ELSE n.lo

\* The conversion of a non-negative int to size_t done by `*vlen = data.dsize'.
IntToSize(i) == IF i >= 0 THEN SizeT(0, i) ELSE SizeT(HiMax, i + INT_MAX + 1)

----------------------------------------------------------------------------
(* Buffers *)

Buf(fill, len) == [fill |-> fill, len |-> len]

\* The bytes of a buffer: the fill byte does not matter when there are none.
Bytes(b) == IF b.len = Zero THEN Buf(0, Zero) ELSE b

\* The bytes the engine reads from a datum with a non-negative dsize.
DatumBytes(d) == Bytes(Buf(d.dptr, IntToSize(d.dsize)))

\* The key lengths the calls are made with: the two ends of 0..INT_MAX, then
\* INT_MAX + 1 (as an int: INT_MIN), 2^32 (as an int: 0) and the largest
\* length of the model (as an int: negative when HiMax is odd).
KeyLens == {SizeT(0, 0), SizeT(0, INT_MAX),
            SizeT(1, 0), SizeT(2, 0), SizeT(HiMax, INT_MAX)}

Keys == {Buf(1, n) : n \in KeyLens}

\* The values the calls are made with: one byte of each fill, then the empty
\* value, one of INT_MAX bytes and one of INT_MAX + 1 bytes.
Values == {Buf(f, SizeT(0, 1)) : f \in 1..NValBytes}
          \cup {Buf(1, n) : n \in {SizeT(0, 0), SizeT(0, INT_MAX), SizeT(1, 0)}}

\* What the caller's length variable may hold before a fetch.
VlenBefore == {Zero, SizeT(0, 7)}

Paths == {"P1", "P2"}

\* A null buffer pointer, as a fetch returns it.
NullBuf == Buf(0 - 1, Zero)

EmptyDb == [k \in {} |-> Buf(0, Zero)]

\* A path with no file, and a file holding the records `data'.
NoFile == [exists |-> FALSE, data |-> EmptyDb]

File(data) == [exists |-> TRUE, data |-> data]

Present(data, k) == k \in DOMAIN data

Put(data, k, v) == [x \in DOMAIN data \cup {k} |-> IF x = k THEN v ELSE data[x]]

Remove(data, k) == [x \in DOMAIN data \ {k} |-> data[x]]


----------------------------------------------------------------------------
(* The engine: the GDBM library calls the backend makes *)

\* A datum handed to the engine: the pointer (the buffer's fill byte stands
\* for the buffer it points to) and the length as the engine's int.
Datum(ptr, len) == [dptr |-> ptr, dsize |-> SizeToInt(len)]

NoDatum == [dptr |-> 0, dsize |-> 0]

\* An engine call as the engine saw it: the function, the handle, path, flag
\* and datums it was given, whether it could be served (live), whether the
\* engine failed on it (ioerr), and for gdbm_open the handle it returned.
NoEngineCall == [fn |-> Nil, db |-> NULL, path |-> Nil, flag |-> Nil, key |-> NoDatum,
                 content |-> NoDatum, live |-> TRUE, ioerr |-> FALSE, out |-> NULL]

\* The connection a successful gdbm_open creates.
NewConn(path, mode) == [state |-> "open", mode |-> mode, path |-> path, closes |-> 0]

\* An engine call can be served: the handle is the connection's and the
\* connection has not been closed.  What the engine does with a call that is
\* not live, or with a negative dsize, is undefined; such a call is recorded
\* with live = FALSE and C5 and C6 show that the backend never makes one.
Live(c, db) == db = DB /\ c.state = "open"

\* gdbm_open(path, pagesize, flag, 00600, NULL) with the connection c and the
\* files fs as they are before the call.  GDBM_WRCREAT needs a path that can
\* be written, and creates the file when there is none; GDBM_NEWDB needs the
\* same and starts the file afresh; GDBM_READER needs a file that can be
\* read.  The file is locked while a connection is open.
\* `call' is the call as the engine saw it; conn and files are the state it
\* leaves.
gdbm_open(c, fs, path, flag) ==
  LET ok == /\ path # NULL
            /\ c.state # "open"
            /\ IF flag \in {"GDBM_WRCREAT", "GDBM_NEWDB"}
                 THEN perm[path] = "rw"
                 ELSE fs[path].exists /\ perm[path] \in {"rw", "ro"}
  IN [call |-> [NoEngineCall EXCEPT !.fn = "gdbm_open", !.path = path, !.flag = flag,
                                     !.out = IF ok THEN DB ELSE NULL],
      conn |-> IF ok THEN NewConn(path, IF flag = "GDBM_READER" THEN "ro" ELSE "rw") ELSE c,
      files |-> IF ok /\ (~fs[path].exists \/ flag = "GDBM_NEWDB")
                  THEN [fs EXCEPT ![path] = File(EmptyDb)]
                  ELSE fs]

\* gdbm_fetch(db, key): a buffer holding a copy of the record's value and its
\* size, or a null pointer and size 0 when there is no record.
gdbm_fetch(db, dkey) ==
  LET live == Live(conn, db) /\ dkey.dsize >= 0
      data == files[conn.path].data
      k == DatumBytes(dkey)
      hit == live /\ Present(data, k)
  IN [call |-> [NoEngineCall EXCEPT !.fn = "gdbm_fetch", !.db = db, !.key = dkey,
                                     !.live = live],
      dptr |-> IF hit THEN data[k] ELSE NullBuf,
      dsize |-> IF hit THEN SizeToInt(data[k].len) ELSE 0]

\* gdbm_store(db, key, content, flag): 0 when the record was written, 1 when
\* flag is GDBM_INSERT and the key has a record, -1 when the connection is a
\* reader or the engine fails (ioerr).
gdbm_store(db, dkey, dval, flag, ioerr) ==
  LET live == Live(conn, db) /\ dkey.dsize >= 0 /\ dval.dsize >= 0
      data == files[conn.path].data
      k == DatumBytes(dkey)
      rc == IF ~live \/ conn.mode = "ro" \/ ioerr THEN -1
            ELSE IF flag = "GDBM_INSERT" /\ Present(data, k) THEN 1
            ELSE 0
  IN [call |-> [NoEngineCall EXCEPT !.fn = "gdbm_store", !.db = db, !.key = dkey,
                                     !.content = dval, !.flag = flag, !.live = live,
                                     !.ioerr = ioerr],
      rc |-> rc,
      files |-> IF rc = 0 THEN [files EXCEPT ![conn.path] = File(Put(data, k, DatumBytes(dval)))]
                ELSE files]

\* gdbm_delete(db, key): 0 when the record was removed, -1 when there is no
\* record, the connection is a reader or the engine fails (ioerr).
gdbm_delete(db, dkey, ioerr) ==
  LET live == Live(conn, db) /\ dkey.dsize >= 0
      data == files[conn.path].data
      k == DatumBytes(dkey)
      rc == IF ~live \/ conn.mode = "ro" \/ ioerr THEN -1
            ELSE IF ~Present(data, k) THEN -1
            ELSE 0
  IN [call |-> [NoEngineCall EXCEPT !.fn = "gdbm_delete", !.db = db, !.key = dkey,
                                     !.live = live, !.ioerr = ioerr],
      rc |-> rc,
      files |-> IF rc = 0 THEN [files EXCEPT ![conn.path] = File(Remove(data, k))] ELSE files]

\* gdbm_close(db): the connection is released; `closes' counts the calls
\* made on it.
gdbm_close(db) ==
  [call |-> [NoEngineCall EXCEPT !.fn = "gdbm_close", !.db = db, !.live = Live(conn, db)],
   conn |-> [conn EXCEPT !.state = "closed", !.closes = @ + 1]]

----------------------------------------------------------------------------
(* The backend: src/store/gdbm.c *)

\* The first gdbm_open called with GDBM_NEWDB instead.
OpenFlagNewDb == "GDBM_NEWDB"

\* The flag of the first gdbm_open of store_gdbm_open.
OpenFlag == "GDBM_WRCREAT"

\* gdbm_store called with GDBM_INSERT instead.
StoreFlagInsert == "GDBM_INSERT"

\* The flag store_gdbm_store passes to gdbm_store.
StoreFlag == "GDBM_REPLACE"

\* The guard of store_gdbm_fetch without its length test.
FetchRejectsNullOnly(store, klen) == store = NULL

\* if (!store || (klen > INT_MAX))
FetchRejects(store, klen) == store = NULL \/ SizeGt(klen, IntMaxAsSize)

\* The guard of store_gdbm_store without its handle test.
StoreRejectsLengthsOnly(store, klen, vlen) ==
  SizeGt(klen, IntMaxAsSize) \/ SizeGt(vlen, IntMaxAsSize)

\* The guard of store_gdbm_store with >= for >.
StoreRejectsFromIntMax(store, klen, vlen) ==
  store = NULL \/ SizeGe(klen, IntMaxAsSize) \/ SizeGe(vlen, IntMaxAsSize)

\* if (!store || (klen > INT_MAX) || (vlen > INT_MAX))
StoreRejects(store, klen, vlen) ==
  store = NULL \/ SizeGt(klen, IntMaxAsSize) \/ SizeGt(vlen, IntMaxAsSize)

\* if (!store || (klen > INT_MAX))
DeleteRejects(store, klen) == store = NULL \/ SizeGt(klen, IntMaxAsSize)

\* if (!ptr || !*ptr): ptr is NULL or the address of the caller's reference
CloseRejects(ptr, ref) == ptr = NULL \/ ref = NULL

\* dkey.dsize left at the 0 of its initialiser in store_gdbm_fetch.
FetchKeyNoSize(key) == Datum(key.fill, Zero)

\* dkey.dptr = (char *) key; dkey.dsize = klen; in store_gdbm_fetch
FetchKey(key) == Datum(key.fill, key.len)

\* dkey.dptr = (char *) key; dkey.dsize = klen; in store_gdbm_store
StoreKey(key) == Datum(key.fill, key.len)

\* databuf.dsize set from klen instead of vlen.
StoreDataBufKeyLen(key, value) == Datum(value.fill, key.len)

\* databuf.dsize = vlen; databuf.dptr = value;
StoreDataBuf(key, value) == Datum(value.fill, value.len)

\* dkey.dsize left at the 0 of its initialiser in store_gdbm_delete_record.
DeleteKeyNoSize(key) == Datum(key.fill, Zero)

\* dkey.dptr = (char *) key; dkey.dsize = klen; in store_gdbm_delete_record
DeleteKey(key) == Datum(key.fill, key.len)

\* store_gdbm_delete_record returning 0 whatever gdbm_delete returned.
DeleteRetIgnored(rc) == 0

\* return gdbm_delete(db, dkey);
DeleteRet(rc) == rc

\* store_gdbm_open without the test of the first attempt's result: the
\* read-only open is made every time and its result returned.
store_gdbm_open_always_reader(path) ==
  IF path = NULL
    THEN [ret |-> NULL, eng |-> <<>>, conn |-> conn, files |-> files]
    ELSE LET rw == gdbm_open(conn, files, path, "GDBM_WRCREAT")
             ro == gdbm_open(rw.conn, rw.files, path, "GDBM_READER")
         IN [ret |-> ro.call.out, eng |-> <<rw.call, ro.call>>,
             conn |-> ro.conn, files |-> ro.files]

\* store_gdbm_open(path): the engine calls made, the handle returned and the
\* state left.
store_gdbm_open(path) ==
  IF path = NULL
    THEN [ret |-> NULL, eng |-> <<>>, conn |-> conn, files |-> files]
    ELSE LET rw == gdbm_open(conn, files, path, OpenFlag)
             ro == gdbm_open(rw.conn, rw.files, path, "GDBM_READER")
         IN IF rw.call.out # NULL
              THEN [ret |-> rw.call.out, eng |-> <<rw.call>>,
                    conn |-> rw.conn, files |-> rw.files]
              ELSE [ret |-> ro.call.out, eng |-> <<rw.call, ro.call>>,
                    conn |-> ro.conn, files |-> ro.files]

\* store_gdbm_fetch that takes the record out of the file as it reads it.
store_gdbm_fetch_and_delete(store, key, v0) ==
  IF FetchRejects(store, key.len)
    THEN [ret |-> NullBuf, vlen |-> v0, eng |-> <<>>, files |-> files]
    ELSE LET data == gdbm_fetch(store, FetchKey(key))
             gone == gdbm_delete(store, FetchKey(key), FALSE)
         IN [ret |-> data.dptr, vlen |-> IntToSize(data.dsize),
             eng |-> <<data.call, gone.call>>, files |-> gone.files]

\* store_gdbm_fetch(store, key, klen, &vlen) with v0 in the caller's vlen; the
\* only engine call is gdbm_fetch, which writes nothing.
store_gdbm_fetch(store, key, v0) ==
  IF FetchRejects(store, key.len)
    THEN [ret |-> NullBuf, vlen |-> v0, eng |-> <<>>, files |-> files]
    ELSE LET data == gdbm_fetch(store, FetchKey(key))
         IN [ret |-> data.dptr, vlen |-> IntToSize(data.dsize), eng |-> <<data.call>>,
             files |-> files]

\* store_gdbm_store(store, key, klen, value, vlen)
store_gdbm_store(store, key, value, ioerr) ==
  IF StoreRejects(store, key.len, value.len)
    THEN [ret |-> -1, eng |-> <<>>, files |-> files]
    ELSE LET r == gdbm_store(store, StoreKey(key), StoreDataBuf(key, value), StoreFlag, ioerr)
         IN [ret |-> r.rc, eng |-> <<r.call>>, files |-> r.files]

\* store_gdbm_delete_record(store, key, klen)
store_gdbm_delete_record(store, key, ioerr) ==
  IF DeleteRejects(store, key.len)
    THEN [ret |-> -1, eng |-> <<>>, files |-> files]
    ELSE LET r == gdbm_delete(store, DeleteKey(key), ioerr)
         IN [ret |-> DeleteRet(r.rc), eng |-> <<r.call>>, files |-> r.files]

\* No buffer.
NoMem == [live |-> FALSE, released |-> 0]

\* FREE(ptr), that is mutt_mem_free(ptr), with ref the reference ptr points
\* to: nothing when ptr or *ptr is null, otherwise the memory at *ptr is
\* released and *ptr set to null.
FREE(ptr, ref) ==
  IF ptr = NULL \/ ref = NULL
    THEN [ref |-> ref, released |-> FALSE]
    ELSE [ref |-> NULL, released |-> TRUE]

\* store_gdbm_free that returns at once when it is given no handle.
store_gdbm_free_needs_store(store, ptr) ==
  IF store = NULL THEN [ref |-> p, released |-> FALSE] ELSE FREE(ptr, p)

\* store_gdbm_free(store, ptr): the handle is not looked at.
store_gdbm_free(store, ptr) == FREE(ptr, p)

\* The version string of the engine the program is linked with.
gdbm_version == "GDBM version string"

\* store_gdbm_version()
store_gdbm_version == gdbm_version

\* store_gdbm_close without `*ptr = NULL'.
store_gdbm_close_keeps_ref(ptr) ==
  IF CloseRejects(ptr, h)
    THEN [ref |-> h, eng |-> <<>>, conn |-> conn]
    ELSE LET r == gdbm_close(h)
         IN [ref |-> h, eng |-> <<r.call>>, conn |-> r.conn]

\* store_gdbm_close(ptr): ptr is NULL or the address of the caller's reference.
store_gdbm_close(ptr) ==
  IF CloseRejects(ptr, h)
    THEN [ref |-> h, eng |-> <<>>, conn |-> conn]
    ELSE LET r == gdbm_close(h)
         IN [ref |-> NULL, eng |-> <<r.call>>, conn |-> r.conn]

----------------------------------------------------------------------------
(* The validator of maildir_field_delimiter: src/maildir/config.c           *)
(*                                                                          *)
(* A C string is the sequence of its characters before the terminating NUL, *)
(* each character a string of length one.                                   *)

\* The longest value the validator is called with.
MaxLen == 3

CSR_SUCCESS == "CSR_SUCCESS"
CSR_ERR_INVALID == "CSR_ERR_INVALID"

Letters == {"a", "Z"}
Digits == {"7"}
\* A byte above 127: a negative char, for which isalnum is undefined
\* and otherwise decided by the locale.
HighBytes == {"0xE9"}
Punct == {":", ";", "-", ".", "\\", "/"}
Chars == Letters \cup Digits \cup Punct \cup HighBytes

\* The values the config system hands to the validator (it rejects the
\* empty string of a DT_NOT_EMPTY variable itself): every single character,
\* and the longer strings of a few.
Delims == {<<c>> : c \in Chars} \cup UNION {[1..n -> {":", ";", "a"}] : n \in 2..MaxLen}

\* cdef->initial of maildir_field_delimiter
initial == <<":">>

strlen(str) == Len(str)

\* isalnum(c); any is the outcome for a byte it is not defined for.
isalnum(c, any) == IF c \in HighBytes THEN any ELSE c \in Letters \cup Digits

\* strchr(str, c) # NULL, for c not NUL
strchr(str, c) == \E i \in 1..Len(str) : str[i] = c

\* The characters ruled out besides the alphanumeric ones, without "/".
ForbiddenNoSlash == <<"-", ".", "\\">>

\* The characters ruled out besides the alphanumeric ones: "-.\\/".
Forbidden == <<"-", ".", "\\", "/">>

ErrLength == "maildir_field_delimiter must be exactly one character long"
ErrClass == "maildir_field_delimiter cannot be alphanumeric or '-.\\/'"
ErrOnce == "maildir_field_delimiter can only be set once"
\* err as the caller passed it, nothing printed to it
ErrNone == ""

\* The test that sets the flag, never true.
IsChangeNever(delim) == FALSE

\* *delim != *(const char *) cdef->initial
IsChange(delim) == delim[1] # initial[1]

\* maildir_field_delimiter_validator(cs, cdef, value, err) with the static
\* flag in `changed': the result, what is printed to err, and the flag after.
maildir_field_delimiter_validator(delim, changed, any) ==
  IF strlen(delim) # 1
    THEN [rc |-> CSR_ERR_INVALID, err |-> ErrLength, changed |-> changed]
  ELSE IF isalnum(delim[1], any) \/ strchr(Forbidden, delim[1])
    THEN [rc |-> CSR_ERR_INVALID, err |-> ErrClass, changed |-> changed]
  ELSE IF changed
    THEN [rc |-> CSR_ERR_INVALID, err |-> ErrOnce, changed |-> changed]
  ELSE [rc |-> CSR_SUCCESS, err |-> ErrNone,
        changed |-> IF IsChange(delim) THEN TRUE ELSE changed]

\* No validator call yet; tick tells one call from the next.
NoValidatorCall == [value |-> <<>>, rc |-> "none", err |-> ErrNone, tick |-> FALSE]

----------------------------------------------------------------------------
(* The data shared by the Index and its friends: src/index/shared_data.c    *)

\* The largest Email sequence number of the Emails the callers pass.
MaxSequence == 2

SHARED == "SHARED"
NOTIFY == "NOTIFY"

NT_INDEX == "NT_INDEX"
NT_INDEX_ADD == "NT_INDEX_ADD"
NT_INDEX_DELETE == "NT_INDEX_DELETE"
NT_INDEX_SUBSET == "NT_INDEX_SUBSET"
NT_INDEX_ACCOUNT == "NT_INDEX_ACCOUNT"
NT_INDEX_MVIEW == "NT_INDEX_MVIEW"
NT_INDEX_MAILBOX == "NT_INDEX_MAILBOX"
NT_INDEX_EMAIL == "NT_INDEX_EMAIL"
\* A NotifyIndex value is the set of its flags.
NT_INDEX_NO_FLAGS == {}

\* The views, their mailboxes (mv->mailbox) and the mailboxes' accounts
\* (m->account): two views of one mailbox, two mailboxes of one account, a
\* mailbox of no account.
Views == {"MV1", "MV2", "MV3", "MV4"}
ViewMailbox == [mv \in Views |-> CASE mv \in {"MV1", "MV2"} -> "M1"
                                   [] mv = "MV3" -> "M2"
                                   [] OTHER -> "M3"]
MailboxAccount == [m \in {"M1", "M2", "M3"} |-> IF m = "M2" THEN NULL ELSE "A1"]
Subsets == {"SUB1", "SUB2"}

\* mview_mailbox(mv)
mview_mailbox(mv) == IF mv # NULL THEN ViewMailbox[mv] ELSE NULL

\* An Email: its address and its sequence number.  email_new() numbers the
\* Emails of a process 0, 1, 2, ...; an address is used again once its Email
\* was freed.
Email(s) == [ptr |-> IF s % 2 = 0 THEN "EA" ELSE "EB", sequence |-> s]
Emails == {Email(s) : s \in 0..MaxSequence}
\* A null Email pointer.
NoEmail == [ptr |-> NULL, sequence |-> 0]

\* An IndexSharedData as mutt_mem_calloc returns it.
NoShared == [mailbox_view |-> NULL, mailbox |-> NULL, account |-> NULL, sub |-> NULL,
             email |-> NULL, email_seq |-> 0, notify |-> NULL]

\* A Notify object: whether it is allocated, whether a notification was sent
\* through it, whether NT_INDEX_DELETE was.
NoNotifier == [live |-> FALSE, had |-> FALSE, deleted |-> FALSE]

\* notify_new()
notify_new == [live |-> TRUE, had |-> FALSE, deleted |-> FALSE]

\* notify_send(notify, event_type, event_subtype, event_data) with nf the
\* object behind notify: the notification as the observers get it (the data
\* as it is at that moment) and the object after.
notify_send(nf, notify, event_type, event_subtype, event_data) ==
  IF notify = NULL
    THEN [notifier |-> nf, sent |-> <<>>]
    ELSE [notifier |-> [nf EXCEPT !.had = TRUE,
                                  !.deleted = @ \/ NT_INDEX_DELETE \in event_subtype],
          sent |-> <<[event_type |-> event_type, event_subtype |-> event_subtype,
                      event_data |-> event_data, live |-> nf.live,
                      first |-> ~nf.had, after_delete |-> nf.deleted]>>]

\* notify_free(&notify): the object is released.
notify_free(nf) == [nf EXCEPT !.live = FALSE]

\* The flags of a changed mailbox, without NT_INDEX_EMAIL.
MailboxFlagsNoEmail == {NT_INDEX_MAILBOX}

\* NT_INDEX_MAILBOX | NT_INDEX_EMAIL
MailboxFlags == {NT_INDEX_MAILBOX, NT_INDEX_EMAIL}

\* The reset of the current Email that leaves email_seq as it is.
ResetEmailPointerOnly(sh) == [sh EXCEPT !.email = NULL]

\* shared->email = NULL; shared->email_seq = 0;
ResetEmail(sh) == [sh EXCEPT !.email = NULL, !.email_seq = 0]

\* index_shared_data_set_mview(sp, mv), sp null or SHARED: the struct and the
\* Notify object after the call, and the notifications sent.
index_shared_data_set_mview(sp, mv) ==
  IF sp = NULL
    THEN [shared |-> shared, notifier |-> notifier, sent |-> <<>>]
    ELSE LET s1 == IF shared.mailbox_view # mv
                     THEN [shared EXCEPT !.mailbox_view = mv]
                     ELSE shared
             t1 == IF shared.mailbox_view # mv THEN {NT_INDEX_MVIEW} ELSE NT_INDEX_NO_FLAGS
             m == mview_mailbox(mv)
             s2 == IF s1.mailbox # m THEN ResetEmail([s1 EXCEPT !.mailbox = m]) ELSE s1
             t2 == IF s1.mailbox # m THEN t1 \cup MailboxFlags ELSE t1
             a == IF m # NULL THEN MailboxAccount[m] ELSE NULL
             s3 == IF s2.account # a THEN [s2 EXCEPT !.account = a] ELSE s2
             t3 == IF s2.account # a THEN t2 \cup {NT_INDEX_ACCOUNT} ELSE t2
             sub == NeoMutt_sub
             s4 == IF s3.sub # sub THEN [s3 EXCEPT !.sub = sub] ELSE s3
             subtype == IF s3.sub # sub THEN t3 \cup {NT_INDEX_SUBSET} ELSE t3
             n == IF subtype # NT_INDEX_NO_FLAGS
                    THEN notify_send(notifier, s4.notify, NT_INDEX, subtype, s4)
                    ELSE [notifier |-> notifier, sent |-> <<>>]
         IN [shared |-> s4, notifier |-> n.notifier, sent |-> n.sent]

\* The test of index_shared_data_set_email on the pointer alone.
EmailDiffersPointerOnly(sh, e, seq) == sh.email # e.ptr

\* (shared->email != e) || (shared->email_seq != seq)
EmailDiffers(sh, e, seq) == (sh.email # e.ptr) \/ (sh.email_seq # seq)

\* index_shared_data_set_email(sp, e), e an Email or NoEmail for null
index_shared_data_set_email(sp, e) ==
  IF sp = NULL
    THEN [shared |-> shared, notifier |-> notifier, sent |-> <<>>]
    ELSE LET seq == IF e.ptr # NULL THEN e.sequence ELSE 0
         IN IF EmailDiffers(shared, e, seq)
              THEN LET s1 == [shared EXCEPT !.email = e.ptr, !.email_seq = seq]
                       n == notify_send(notifier, s1.notify, NT_INDEX, {NT_INDEX_EMAIL}, s1)
                   IN [shared |-> s1, notifier |-> n.notifier, sent |-> n.sent]
              ELSE [shared |-> shared, notifier |-> notifier, sent |-> <<>>]

\* index_shared_data_is_cur_email(sp, e), e an Email
index_shared_data_is_cur_email(sp, e) ==
  IF sp = NULL THEN FALSE ELSE shared.email_seq = e.sequence

\* index_shared_data_free that releases the Notify object before it sends.
index_shared_data_free_notifier_first(ptr) ==
  IF ptr = NULL \/ wdata = NULL
    THEN [wdata |-> wdata, shared |-> shared, notifier |-> notifier, sent |-> <<>>]
    ELSE LET nf == notify_free(notifier)
             n == notify_send(nf, NULL, NT_INDEX, {NT_INDEX_DELETE}, shared)
             f == FREE(ptr, wdata)
         IN [wdata |-> f.ref, shared |-> IF f.released THEN NoShared ELSE shared,
             notifier |-> n.notifier, sent |-> n.sent]

\* index_shared_data_free(win, ptr), ptr null or the address of wdata
index_shared_data_free(ptr) ==
  IF ptr = NULL \/ wdata = NULL
    THEN [wdata |-> wdata, shared |-> shared, notifier |-> notifier, sent |-> <<>>]
    ELSE LET n == notify_send(notifier, shared.notify, NT_INDEX, {NT_INDEX_DELETE}, shared)
             nf == notify_free(n.notifier)
             f == FREE(ptr, wdata)
         IN [wdata |-> f.ref, shared |-> IF f.released THEN NoShared ELSE shared,
             notifier |-> nf, sent |-> n.sent]

\* index_shared_data_new()
index_shared_data_new ==
  LET s1 == [NoShared EXCEPT !.notify = NOTIFY, !.sub = NeoMutt_sub]
      n == notify_send(notify_new, s1.notify, NT_INDEX, {NT_INDEX_ADD}, s1)
  IN [ret |-> SHARED, shared |-> s1, notifier |-> n.notifier, sent |-> n.sent]

\* A call of a function of index/shared_data.c: the function, its arguments
\* (sp, mv, e, ptr), its result and the notifications it sent; tick tells
\* one call from the next.
NoIndexCall == [op |-> "none", sp |-> NULL, mv |-> NULL, e |-> NoEmail, ptr |-> NULL,
                ret |-> FALSE, sent |-> <<>>, tick |-> FALSE]

----------------------------------------------------------------------------
(* The calls a caller makes, and the file system around them *)

\* What the file system may allow on each path: P1 is the caller's cache
\* file, P2 a path in a directory this process cannot enter.
PathPerms == [f \in Paths |-> IF f = "P1" THEN {"rw", "ro", "none"} ELSE {"none"}]

\* A call through the backend: the operation, the handle passed (store), the
\* path or reference passed (path), the key and value buffers, the caller's
\* length variable before (v0) and after (vlen), the results (rc of store and
\* delete, buf of fetch, ref the handle open returns or close leaves in the
\* caller's reference), the engine calls made, and what the caller knew
\* before the call (old, after); str is the string version returns.
NoCall == [op |-> "none", store |-> NULL, path |-> Nil, key |-> NullBuf, value |-> NullBuf,
           v0 |-> Zero, vlen |-> Zero, rc |-> 0, buf |-> NullBuf, ref |-> NULL,
           eng |-> <<>>, old |-> NullBuf, after |-> Nil, str |-> Nil]

\* What the caller was told is stored for the key when it makes a call: the
\* value of the last store that reported success, NullBuf if there is none.
Old(store, key) ==
  IF store # NULL /\ conn.state = "open" /\ Present(expect[conn.path], Bytes(key))
    THEN expect[conn.path][Bytes(key)]
    ELSE NullBuf

\* Whether the call before this one, on the same handle and a byte-equal key,
\* was a store or a delete that reported success ("replace" is a store over
\* another value), or was the open that returned the handle.
After(store, key) ==
  IF /\ last.op \in {"store", "delete"}
     /\ last.rc = 0
     /\ last.store = store
     /\ Bytes(last.key) = Bytes(key)
    THEN IF last.op = "store" /\ last.old \notin {NullBuf, Bytes(last.value)}
           THEN "replace"
           ELSE last.op
    ELSE IF last.op = "open" /\ store # NULL /\ last.ref = store
           THEN "open"
           ELSE Nil

Init ==
  /\ h = NULL
  /\ conn = [state |-> "none", mode |-> Nil, path |-> Nil, closes |-> 0]
  /\ files = [f \in Paths |-> NoFile]
  /\ perm = [f \in Paths |-> IF f = "P1" THEN "rw" ELSE "none"]
  /\ expect = [f \in Paths |-> EmptyDb]
  /\ last = NoCall
  /\ p = NULL
  /\ mem = NoMem
  /\ maildir_field_delimiter_changed = FALSE
  /\ mdset = FALSE
  /\ mdlast = NoValidatorCall
  /\ wdata = NULL
  /\ shared = NoShared
  /\ notifier = NoNotifier
  /\ NeoMutt_sub = "SUB1"
  /\ cur = NoEmail
  /\ lastmv = NULL
  /\ ilast = NoIndexCall

\* h = store_gdbm_open(path), by a caller whose reference holds no handle
\* (a caller pairs each open with a close before it opens again).
Open(path) ==
  /\ h = NULL
  /\ LET r == store_gdbm_open(path)
     IN /\ h' = r.ret
        /\ conn' = r.conn
        /\ files' = r.files
        /\ last' = [NoCall EXCEPT !.op = "open", !.path = path, !.ref = r.ret, !.eng = r.eng]
  /\ UNCHANGED <<perm, expect, p, mem>>
  /\ UNCHANGED <<maildir_vars, index_vars>>

\* p = store_gdbm_fetch(h, key, klen, &vlen)
Fetch(key, v0) ==
  /\ LET r == store_gdbm_fetch(h, key, v0)
     IN /\ files' = r.files
        /\ last' = [NoCall EXCEPT !.op = "fetch", !.store = h, !.key = key, !.v0 = v0,
                                  !.vlen = r.vlen, !.buf = r.ret, !.eng = r.eng,
                                  !.old = Old(h, key), !.after = After(h, key)]
        /\ p' = IF r.ret = NullBuf THEN NULL ELSE BUF
        /\ mem' = [live |-> r.ret # NullBuf, released |-> 0]
  /\ UNCHANGED <<h, conn, perm, expect>>
  /\ UNCHANGED <<maildir_vars, index_vars>>

\* store_gdbm_free(store, ptr), with ptr null or the address of p
Free(store, ptr) ==
  /\ LET r == store_gdbm_free(store, ptr)
     IN /\ p' = r.ref
        /\ mem' = IF r.released
                    THEN [live |-> FALSE, released |-> mem.released + 1]
                    ELSE mem
        /\ last' = [NoCall EXCEPT !.op = "free", !.store = store, !.path = ptr,
                                  !.ref = r.ref]
  /\ UNCHANGED <<h, conn, files, perm, expect>>
  /\ UNCHANGED <<maildir_vars, index_vars>>

\* s = store_gdbm_version()
Version ==
  /\ last' = [NoCall EXCEPT !.op = "version", !.str = store_gdbm_version]
  /\ UNCHANGED <<h, conn, files, perm, expect, p, mem>>
  /\ UNCHANGED <<maildir_vars, index_vars>>

\* rc = store_gdbm_store(h, key, klen, value, vlen)
Store(key, value, ioerr) ==
  /\ LET r == store_gdbm_store(h, key, value, ioerr)
     IN /\ files' = r.files
        /\ expect' = IF r.ret = 0
                       THEN [expect EXCEPT ![conn.path] = Put(@, Bytes(key), Bytes(value))]
                       ELSE expect
        /\ last' = [NoCall EXCEPT !.op = "store", !.store = h, !.key = key,
                                  !.value = value, !.rc = r.ret, !.eng = r.eng,
                                  !.old = Old(h, key)]
  /\ UNCHANGED <<h, conn, perm, p, mem>>
  /\ UNCHANGED <<maildir_vars, index_vars>>

\* rc = store_gdbm_delete_record(h, key, klen)
Delete(key, ioerr) ==
  /\ LET r == store_gdbm_delete_record(h, key, ioerr)
     IN /\ files' = r.files
        /\ expect' = IF r.ret = 0
                       THEN [expect EXCEPT ![conn.path] = Remove(@, Bytes(key))]
                       ELSE expect
        /\ last' = [NoCall EXCEPT !.op = "delete", !.store = h, !.key = key,
                                  !.rc = r.ret, !.eng = r.eng, !.old = Old(h, key),
                                  !.after = After(h, key)]
  /\ UNCHANGED <<h, conn, perm, p, mem>>
  /\ UNCHANGED <<maildir_vars, index_vars>>

\* store_gdbm_close(ptr), ptr being NULL or &h
Close(ptr) ==
  /\ LET r == store_gdbm_close(ptr)
     IN /\ h' = r.ref
        /\ conn' = r.conn
        /\ last' = [NoCall EXCEPT !.op = "close", !.store = h, !.path = ptr, !.ref = r.ref,
                                  !.eng = r.eng]
  /\ UNCHANGED <<files, perm, expect, p, mem>>
  /\ UNCHANGED <<maildir_vars, index_vars>>

\* The file system changes what it allows on a path.
Chmod(f, m) ==
  /\ m \in PathPerms[f]
  /\ perm[f] # m
  /\ perm' = [perm EXCEPT ![f] = m]
  /\ UNCHANGED <<h, conn, files, expect, last, p, mem>>
  /\ UNCHANGED <<maildir_vars, index_vars>>

Next ==
  \/ \E path \in Paths \cup {NULL} : Open(path)
  \/ \E key \in Keys, v0 \in VlenBefore : Fetch(key, v0)
  \/ \E key \in Keys, value \in Values, ioerr \in BOOLEAN : Store(key, value, ioerr)
  \/ \E key \in Keys, ioerr \in BOOLEAN : Delete(key, ioerr)
  \/ \E ptr \in {NULL, "&h"} : Close(ptr)
  \/ Version
  \/ \E store \in {NULL, DB}, ptr \in {NULL, "&p"} : Free(store, ptr)
  \/ \E f \in Paths, m \in {"rw", "ro", "none"} : Chmod(f, m)

Spec == Init /\ [][Next]_vars

\* rc = maildir_field_delimiter_validator(cs, cdef, value, err), whenever the
\* variable is set or reset
Validate(value, any) ==
  /\ LET r == maildir_field_delimiter_validator(value, maildir_field_delimiter_changed, any)
     IN /\ maildir_field_delimiter_changed' = r.changed
        /\ mdset' = (mdset \/ (r.rc = CSR_SUCCESS /\ value # initial))
        /\ mdlast' = [value |-> value, rc |-> r.rc, err |-> r.err, tick |-> ~mdlast.tick]
  /\ UNCHANGED <<store_vars, index_vars>>

NextMaildir == \E value \in Delims, any \in BOOLEAN : Validate(value, any)

SpecMaildir == Init /\ [][NextMaildir]_vars

\* wdata = index_shared_data_new(), by a window that has no shared data
New ==
  /\ wdata = NULL
  /\ LET r == index_shared_data_new
     IN /\ wdata' = r.ret
        /\ shared' = r.shared
        /\ notifier' = r.notifier
        /\ ilast' = [NoIndexCall EXCEPT !.op = "new", !.sp = r.ret, !.sent = r.sent,
                                        !.tick = ~ilast.tick]
  /\ cur' = NoEmail
  /\ lastmv' = NULL
  /\ UNCHANGED <<NeoMutt_sub, store_vars, maildir_vars>>

\* index_shared_data_set_mview(sp, mv)
SetMview(sp, mv) ==
  /\ LET r == index_shared_data_set_mview(sp, mv)
     IN /\ shared' = r.shared
        /\ notifier' = r.notifier
        /\ ilast' = [NoIndexCall EXCEPT !.op = "set_mview", !.sp = sp, !.mv = mv,
                                        !.sent = r.sent, !.tick = ~ilast.tick]
  /\ lastmv' = IF sp # NULL THEN mv ELSE lastmv
  /\ cur' = IF sp # NULL /\ mview_mailbox(mv) # mview_mailbox(lastmv) THEN NoEmail ELSE cur
  /\ UNCHANGED <<wdata, NeoMutt_sub, store_vars, maildir_vars>>

\* index_shared_data_set_email(sp, e)
SetEmail(sp, e) ==
  /\ LET r == index_shared_data_set_email(sp, e)
     IN /\ shared' = r.shared
        /\ notifier' = r.notifier
        /\ ilast' = [NoIndexCall EXCEPT !.op = "set_email", !.sp = sp, !.e = e,
                                        !.sent = r.sent, !.tick = ~ilast.tick]
  /\ cur' = IF sp # NULL THEN e ELSE cur
  /\ UNCHANGED <<wdata, NeoMutt_sub, lastmv, store_vars, maildir_vars>>

\* index_shared_data_is_cur_email(sp, e)
IsCurEmail(sp, e) ==
  /\ ilast' = [NoIndexCall EXCEPT !.op = "is_cur_email", !.sp = sp, !.e = e,
                                  !.ret = index_shared_data_is_cur_email(sp, e),
                                  !.tick = ~ilast.tick]
  /\ UNCHANGED <<wdata, shared, notifier, NeoMutt_sub, cur, lastmv, store_vars, maildir_vars>>

\* index_shared_data_free(win, ptr)
IndexFree(ptr) ==
  /\ LET r == index_shared_data_free(ptr)
     IN /\ wdata' = r.wdata
        /\ shared' = r.shared
        /\ notifier' = r.notifier
        /\ ilast' = [NoIndexCall EXCEPT !.op = "free", !.ptr = ptr, !.sp = r.wdata,
                                        !.sent = r.sent, !.tick = ~ilast.tick]
        /\ cur' = IF r.wdata = NULL THEN NoEmail ELSE cur
        /\ lastmv' = IF r.wdata = NULL THEN NULL ELSE lastmv
  /\ UNCHANGED <<NeoMutt_sub, store_vars, maildir_vars>>

\* NeoMutt->sub becomes another subset (NeoMutt is set up anew).
SetSub(sub) ==
  /\ sub # NeoMutt_sub
  /\ NeoMutt_sub' = sub
  /\ ilast' = [NoIndexCall EXCEPT !.op = "neomutt", !.tick = ~ilast.tick]
  /\ UNCHANGED <<wdata, shared, notifier, cur, lastmv, store_vars, maildir_vars>>

NextIndex ==
  \/ New
  \/ \E sp \in {NULL, wdata}, mv \in Views \cup {NULL} : SetMview(sp, mv)
  \/ \E sp \in {NULL, wdata}, e \in Emails \cup {NoEmail} : SetEmail(sp, e)
  \/ \E sp \in {NULL, wdata}, e \in Emails : IsCurEmail(sp, e)
  \/ \E ptr \in {NULL, "&wdata"} : IndexFree(ptr)
  \/ \E sub \in Subsets : SetSub(sub)

SpecIndex == Init /\ [][NextIndex]_vars

----------------------------------------------------------------------------
(* Properties *)

\* The last call reached the engine with the key it was given.
Served(c) == c.store # NULL /\ ~SizeGt(c.key.len, IntMaxAsSize)

\* C1: round trip.  On a handle opened read-write, when a store of value v
\* under key k returns 0, the fetch of k that follows it on that handle
\* returns a buffer byte-equal to v and reports the length of v.
C1_RoundTrip ==
  [][(/\ last.op = "store"
      /\ last.rc = 0
      /\ conn.mode = "rw"
      /\ last'.op = "fetch"
      /\ last'.store = last.store
      /\ Bytes(last'.key) = Bytes(last.key))
     => (/\ last'.buf = Bytes(last.value)
         /\ last'.vlen = last.value.len)]_vars

\* A fetch that follows a successful store of the same key on a read-write
\* handle and returns a value.
C1_Witness ==
  /\ last.op = "fetch"
  /\ last.after \in {"store", "replace"}
  /\ conn.mode = "rw"
  /\ last.buf # NullBuf
  /\ last.vlen = IntMaxAsSize

\* C2: replace semantics.  A fetch of a key returns exactly the value of the
\* most recent store to that key that returned 0 (the same bytes, the same
\* length), and a store never returns the engine's "key exists" code 1: on a
\* key that has a record, as on a new key, it returns 0 unless the engine
\* fails or the handle is read-only.
C2_Replace ==
  /\ (last.op = "store" => last.rc \in {0, 0 - 1})
  /\ (last.op = "store" /\ Served(last) /\ ~SizeGt(last.value.len, IntMaxAsSize)
        /\ conn.mode = "rw" /\ ~last.eng[1].ioerr
      => last.rc = 0)
  /\ (last.op = "fetch" /\ Served(last) /\ last.old # NullBuf
      => (/\ last.buf = last.old
          /\ last.vlen = last.old.len
          /\ last.buf = expect[conn.path][Bytes(last.key)]))

\* A fetch right after a store that replaced another value of the key.
C2_Witness ==
  /\ last.op = "fetch"
  /\ last.after = "replace"
  /\ last.buf = last.old

\* C3 as claimed: in each of the three failure cases of fetch (null handle,
\* key length above INT_MAX, key absent) the result is null and the length
\* reported is 0, whatever the caller's length variable held.
C3_Original ==
  (/\ last.op = "fetch"
   /\ (~Served(last) \/ last.old = NullBuf))
  => (last.buf = NullBuf /\ last.vlen = Zero)

\* C3, amended: in each of the three failure cases fetch returns null; the
\* length reported is 0 when the key is absent, and when the handle is null or
\* the key length exceeds INT_MAX the caller's length variable is left holding
\* what it held before the call.
C3_FetchFailure ==
  /\ (last.op = "fetch" /\ ~Served(last)
      => (last.buf = NullBuf /\ last.vlen = last.v0 /\ last.eng = <<>>))
  /\ (last.op = "fetch" /\ Served(last) /\ last.old = NullBuf
      => (last.buf = NullBuf /\ last.vlen = Zero))

\* A fetch rejected for its key length, with a length variable that held 7.
C3_Witness ==
  /\ last.op = "fetch"
  /\ last.store # NULL
  /\ SizeGt(last.key.len, IntMaxAsSize)
  /\ last.v0 # Zero
  /\ last.vlen = last.v0
  /\ DOMAIN files[conn.path].data # {}

\* C4: idempotent close.  A close through a reference that holds a handle
\* calls the engine's close once, on that handle, and leaves the reference
\* null; a close through a reference that is null, or with no reference at
\* all, calls nothing and changes nothing; so the engine's close is called at
\* most once on the connection of each successful open.
C4_IdempotentClose ==
  /\ conn.closes <= 1
  /\ (last.op = "close" /\ last.path # NULL /\ last.store # NULL
      => (/\ Len(last.eng) = 1
          /\ last.eng[1].fn = "gdbm_close"
          /\ last.eng[1].db = last.store
          /\ last.eng[1].live
          /\ last.ref = NULL
          /\ h = NULL
          /\ conn.state = "closed"
          /\ conn.closes = 1))
  /\ (last.op = "close" /\ (last.path = NULL \/ last.store = NULL)
      => (/\ last.eng = <<>>
          /\ last.ref = last.store
          /\ h = last.store))

\* A second close through the reference an earlier close has cleared.
C4_Witness ==
  /\ last.op = "close"
  /\ last.path # NULL
  /\ last.store = NULL
  /\ conn.state = "closed"
  /\ conn.closes = 1

\* C5: null handle.  A fetch, store or delete that is passed a null handle
\* (as the caller's reference is after close) returns null, -1 and -1, makes
\* no engine call and leaves the files and the connection as they were; the
\* caller's reference never holds a closed connection, and every engine call
\* made is made on an open connection.
C5_NullHandle ==
  [][/\ (last'.op \in {"fetch", "store", "delete"} /\ last'.store = NULL
         => (/\ last'.eng = <<>>
             /\ last'.op = "fetch" => last'.buf = NullBuf
             /\ last'.op # "fetch" => last'.rc = 0 - 1
             /\ files' = files
             /\ conn' = conn))
     /\ (h' # NULL => conn'.state = "open")
     /\ \A i \in 1..Len(last'.eng) : last'.eng[i].live]_vars

\* A store made after close, through the cleared reference.
C5_Witness ==
  /\ last.op = "store"
  /\ last.store = NULL
  /\ conn.state = "closed"
  /\ last.rc = 0 - 1
  /\ DOMAIN files[conn.path].data # {}

\* C6: capacity boundary.  A store with a key or value length above INT_MAX,
\* and a fetch or delete with a key length above INT_MAX, return failure, make
\* no engine call and leave the files as they were.  With a handle and lengths
\* in 0..INT_MAX the call is passed to the engine once, and every dsize the
\* engine is given is non-negative and equal to the caller's length.
C6_Capacity ==
  [][/\ (/\ last'.op = "store"
         /\ (SizeGt(last'.key.len, IntMaxAsSize) \/ SizeGt(last'.value.len, IntMaxAsSize))
         => (last'.rc = 0 - 1 /\ last'.eng = <<>> /\ files' = files))
     /\ (last'.op = "delete" /\ SizeGt(last'.key.len, IntMaxAsSize)
         => (last'.rc = 0 - 1 /\ last'.eng = <<>> /\ files' = files))
     /\ (last'.op = "fetch" /\ SizeGt(last'.key.len, IntMaxAsSize)
         => (last'.buf = NullBuf /\ last'.eng = <<>> /\ files' = files))
     /\ (/\ last'.op \in {"fetch", "store", "delete"}
         /\ Served(last')
         /\ ~SizeGt(last'.value.len, IntMaxAsSize)
         => (/\ Len(last'.eng) = 1
             /\ last'.eng[1].fn = "gdbm_" \o last'.op
             /\ last'.eng[1].key.dptr = last'.key.fill
             /\ last'.eng[1].key.dsize >= 0
             /\ SizeT(0, last'.eng[1].key.dsize) = last'.key.len
             /\ last'.op = "store"
                => (/\ last'.eng[1].content.dptr = last'.value.fill
                    /\ last'.eng[1].content.dsize >= 0
                    /\ SizeT(0, last'.eng[1].content.dsize) = last'.value.len)))]_vars

\* A store of a value of INT_MAX bytes under a key of INT_MAX bytes that the
\* engine accepted.
C6_Witness ==
  /\ last.op = "store"
  /\ last.key.len = IntMaxAsSize
  /\ last.value.len = IntMaxAsSize
  /\ last.rc = 0
  /\ last.eng[1].content.dsize = INT_MAX

\* C7: open fallback.  An open of a null path makes no engine call and
\* returns null.  An open of a path first makes a read-write-create attempt
\* on it; it makes a read-only attempt, on the same path, exactly when the
\* first attempt failed; it returns the handle of the attempt that succeeded,
\* and null exactly when no attempt did; no attempt that succeeded is
\* followed by another.
C7_OpenFallback ==
  last.op = "open"
  => /\ (last.path = NULL => last.eng = <<>> /\ last.ref = NULL)
     /\ (last.path # NULL
         => (/\ Len(last.eng) \in {1, 2}
             /\ \A i \in 1..Len(last.eng) :
                  /\ last.eng[i].fn = "gdbm_open"
                  /\ last.eng[i].path = last.path
             /\ last.eng[1].flag = "GDBM_WRCREAT"
             /\ (Len(last.eng) = 2 <=> last.eng[1].out = NULL)
             /\ (Len(last.eng) = 2 => last.eng[2].flag = "GDBM_READER")
             /\ last.ref = last.eng[Len(last.eng)].out
             /\ (last.ref = NULL <=> \A i \in 1..Len(last.eng) : last.eng[i].out = NULL)
             /\ h = last.ref
             /\ (last.ref # NULL
                 => (/\ conn.state = "open"
                     /\ conn.path = last.path
                     /\ conn.mode = (IF Len(last.eng) = 1 THEN "rw" ELSE "ro")))))

\* An open whose first attempt failed and whose read-only attempt succeeded.
C7_Witness ==
  /\ last.op = "open"
  /\ Len(last.eng) = 2
  /\ last.eng[1].out = NULL
  /\ last.ref # NULL

\* The records in each file are those the return codes told the caller of.
FilesAsTold == \A f \in Paths : files[f].data = expect[f]

\* C8: read-only handle.  On a handle that came from the read-only attempt,
\* a fetch of a key that has a record in the file returns the record's value
\* and length, and every store and delete returns a failure code and leaves
\* the files as they were.
C8_ReadOnly ==
  [][(/\ last'.op \in {"fetch", "store", "delete"}
      /\ last'.store # NULL
      /\ conn'.mode = "ro")
     => (/\ (/\ last'.op = "fetch"
             /\ ~SizeGt(last'.key.len, IntMaxAsSize)
             /\ Present(files[conn.path].data, Bytes(last'.key))
             => (/\ last'.buf = files[conn.path].data[Bytes(last'.key)]
                 /\ last'.vlen = last'.buf.len))
         /\ (last'.op \in {"store", "delete"}
             => (last'.rc # 0 /\ files' = files /\ expect' = expect)))]_vars

\* A fetch on a read-only handle that returned a stored value.
C8_Witness ==
  /\ last.op = "fetch"
  /\ last.store # NULL
  /\ conn.mode = "ro"
  /\ conn.state = "open"
  /\ last.buf # NullBuf
  /\ last.vlen = IntMaxAsSize

\* C9: delete then fetch.  When a delete of key k returns 0, the record of k
\* is gone and the records of all other keys, in every file, are as they
\* were; the fetch of k that follows on that handle returns null, and so does
\* every fetch of a key whose last successful store or delete was a delete.
C9_DeleteThenFetch ==
  [][/\ (/\ last.op = "delete"
         /\ last.rc = 0
         /\ last'.op = "fetch"
         /\ last'.store = last.store
         /\ Bytes(last'.key) = Bytes(last.key)
         => last'.buf = NullBuf)
     /\ (last'.op = "fetch" /\ Served(last') /\ last'.old = NullBuf
         => last'.buf = NullBuf)
     /\ (last'.op = "delete" /\ last'.rc = 0 /\ last' # last
         => (/\ Present(files[conn.path].data, Bytes(last'.key))
             /\ files' = [files EXCEPT ![conn.path] =
                            File(Remove(files[conn.path].data, Bytes(last'.key)))]
             /\ FilesAsTold'))]_vars

\* A fetch that follows a successful delete of its key and misses, while
\* another key still has its record.
C9_Witness ==
  /\ last.op = "fetch"
  /\ last.after = "delete"
  /\ last.buf = NullBuf
  /\ DOMAIN files[conn.path].data # {}

\* C10: delete of an absent key.  On an open handle, a delete of a key that
\* has no record returns a non-zero code; a delete that returns a non-zero
\* code leaves the files as they were; so the delete that follows a
\* successful delete of the same key returns a non-zero code.
C10_DeleteAbsent ==
  [][/\ (/\ last'.op = "delete"
         /\ last' # last
         /\ last'.store # NULL
         /\ ~Present(files[conn.path].data, Bytes(last'.key))
         => last'.rc # 0)
     /\ (last'.op = "delete" /\ last'.rc # 0
         => (files' = files /\ expect' = expect))
     /\ (last'.op = "delete" /\ last'.after = "delete"
         => last'.rc # 0)]_vars

\* The second of two deletes of a key, the first of which succeeded.
C10_Witness ==
  /\ last.op = "delete"
  /\ last.after = "delete"
  /\ last.store # NULL
  /\ last.rc = 0 - 1

\* C11: durability.  A close and an open change no record of any file and
\* nothing of what the caller was told is stored, and the records in the
\* files are those of the stores and deletes that reported success; so the
\* first fetch on a handle just opened returns, for its key, the value of the
\* last successful store made before (with its length), and null when the
\* key was never stored or was last deleted.
C11_Durability ==
  [][/\ (last'.op \in {"open", "close"}
         => (/\ \A f \in Paths : files'[f].data = files[f].data
             /\ expect' = expect))
     /\ FilesAsTold'
     /\ (last'.op = "fetch" /\ last'.after = "open"
         => (/\ last'.buf = last'.old
             /\ last'.old # NullBuf => last'.vlen = last'.old.len))]_vars

\* The first fetch on a read-write handle just opened, returning a value
\* stored through an earlier handle.
C11_Witness ==
  /\ last.op = "fetch"
  /\ last.after = "open"
  /\ conn.mode = "rw"
  /\ last.buf # NullBuf
  /\ conn.state = "open"

\* C12: fetch and version are read-only.  A fetch, whether it hits, misses or
\* is rejected, and a version call leave every file, the caller's handle, its
\* connection and what the caller was told is stored as they were; version
\* returns the engine's version string; and a fetch right after a fetch of
\* the same key through the same handle returns what the first returned.
C12_ReadOnly ==
  [][/\ (last'.op \in {"fetch", "version"}
         => (/\ files' = files
             /\ h' = h
             /\ conn' = conn
             /\ expect' = expect))
     /\ (last'.op = "version" => last'.str = gdbm_version)
     /\ (/\ last.op = "fetch"
         /\ last'.op = "fetch"
         /\ last'.store = last.store
         /\ Bytes(last'.key) = Bytes(last.key)
         => last'.buf = last.buf)]_vars

\* A fetch that returned a value from a file that still holds it.
C12_Witness ==
  /\ last.op = "fetch"
  /\ h # NULL
  /\ conn.state = "open"
  /\ last.buf # NullBuf
  /\ Present(files[conn.path].data, Bytes(last.key))
  /\ files[conn.path].data[Bytes(last.key)] = last.buf

\* C13: releasing a fetched buffer.  A free given the address of a reference
\* that holds a buffer releases that buffer once and leaves null in the
\* reference, with or without a handle; a free given no reference, or a
\* reference that holds null (after a free, or after a fetch that missed),
\* changes nothing; a reference holds a buffer exactly while the buffer is
\* allocated, so no buffer is released twice through it; and a free changes
\* neither the files nor the handle.
C13_FreeOnce ==
  [][/\ (/\ last'.op = "free"
         /\ last' # last
         /\ last'.path = "&p"
         /\ p # NULL
         => (/\ p' = NULL
             /\ ~mem'.live
             /\ mem'.released = mem.released + 1))
     /\ (/\ last'.op = "free"
         /\ last'.path = NULL \/ p = NULL
         => (p' = p /\ mem' = mem))
     /\ (last'.op = "free" => (files' = files /\ h' = h /\ conn' = conn))
     /\ mem'.released <= 1
     /\ (p' # NULL <=> mem'.live)]_vars

\* A fetched buffer released through its reference by a free that was given
\* no handle.
C13_Witness ==
  /\ last.op = "free"
  /\ last.store = NULL
  /\ last.path = "&p"
  /\ mem.released = 1
  /\ p = NULL

\* C14: the delimiter can be set once.  A call with a value other than the
\* initial one succeeds only if no such call succeeded before; once one has,
\* every call fails, whatever value it passes, the initial one included; and
\* before that a call passing the initial value succeeds and leaves the next
\* call as free to change the delimiter as it was.
C14_SetOnce ==
  [][/\ (mdlast'.rc = CSR_SUCCESS /\ mdlast'.value # initial => ~mdset)
     /\ (mdset => mdlast'.rc = CSR_ERR_INVALID)
     /\ (~mdset /\ mdlast'.value = initial
         => (/\ mdlast'.rc = CSR_SUCCESS
             /\ ~mdset'
             /\ ~maildir_field_delimiter_changed'))]_vars

\* The initial value refused after the delimiter was changed.
C14_Witness ==
  /\ mdset
  /\ mdlast.value = initial
  /\ mdlast.rc = CSR_ERR_INVALID
  /\ mdlast.err = ErrOnce

\* C15: validity.  A call succeeds only for a value of one character that is
\* neither a letter, a digit nor one of - . \ /; a call with a value of
\* another length fails with the length message and a call with one such
\* character fails with the character message, also after the delimiter was
\* changed; and a call that fails leaves the flag, and whether the delimiter
\* can still be changed, as they were.
C15_Validity ==
  [][/\ (mdlast'.rc = CSR_SUCCESS
         => (/\ Len(mdlast'.value) = 1
             /\ mdlast'.value[1] \notin Letters \cup Digits \cup {"-", ".", "\\", "/"}))
     /\ (Len(mdlast'.value) # 1
         => (mdlast'.rc = CSR_ERR_INVALID /\ mdlast'.err = ErrLength))
     /\ (/\ Len(mdlast'.value) = 1
         /\ mdlast'.value[1] \in Letters \cup Digits \cup {"-", ".", "\\", "/"}
         => (mdlast'.rc = CSR_ERR_INVALID /\ mdlast'.err = ErrClass))
     /\ (mdlast'.rc = CSR_ERR_INVALID
         => (/\ maildir_field_delimiter_changed' = maildir_field_delimiter_changed
             /\ mdset' = mdset))]_vars

\* After the delimiter was changed, a call refused for its character.
C15_Witness ==
  /\ mdset
  /\ mdlast.value = <<"/">>
  /\ mdlast.rc = CSR_ERR_INVALID
  /\ mdlast.err = ErrClass

\* C16: index_shared_data_is_cur_email(shared, e) returns true exactly when
\* e is the Email the callers selected last and no change of mailbox has
\* cleared since, so false when no Email is selected and false for every
\* other Email; and false when shared is null.
C16_IsCurEmail ==
  ilast.op = "is_cur_email"
    => (ilast.ret <=> (ilast.sp # NULL /\ cur # NoEmail /\ ilast.e = cur))

\* What set_mview is to report for view mv: the flags of the fields whose
\* stored value differs from the one the view gives.
ViewChanges(mv) ==
  LET m == IF mv = NULL THEN NULL ELSE ViewMailbox[mv]
      a == IF m = NULL THEN NULL ELSE MailboxAccount[m]
  IN (IF shared.mailbox_view # mv THEN {NT_INDEX_MVIEW} ELSE {})
       \cup (IF shared.mailbox # m THEN {NT_INDEX_MAILBOX, NT_INDEX_EMAIL} ELSE {})
       \cup (IF shared.account # a THEN {NT_INDEX_ACCOUNT} ELSE {})
       \cup (IF shared.sub # NeoMutt_sub THEN {NT_INDEX_SUBSET} ELSE {})

\* C17: index_shared_data_set_mview on a shared data sends nothing when the
\* view, its mailbox, the mailbox's account and the config subset are the
\* stored ones, and otherwise one NT_INDEX notification whose subtype is the
\* union of the flags of the fields that differ, carrying the data with all
\* its fields updated; a second call with the same view right after the
\* first sends nothing.
C17_NotifyIffChanged ==
  [][/\ (ilast'.op = "set_mview" /\ ilast'.sp # NULL
         => IF ViewChanges(ilast'.mv) = {}
              THEN ilast'.sent = <<>> /\ shared' = shared
              ELSE /\ Len(ilast'.sent) = 1
                   /\ ilast'.sent[1].event_type = NT_INDEX
                   /\ ilast'.sent[1].event_subtype = ViewChanges(ilast'.mv)
                   /\ ilast'.sent[1].event_data = shared'
                   /\ ilast'.sent[1].live
                   /\ shared'.mailbox_view = ilast'.mv
                   /\ shared'.sub = NeoMutt_sub)
     /\ (/\ ilast.op = "set_mview"
         /\ ilast'.op = "set_mview"
         /\ ilast.sp # NULL
         /\ ilast'.sp # NULL
         /\ ilast'.mv = ilast.mv
         => ilast'.sent = <<>>)]_vars

\* A call that changed the view but neither mailbox nor account, then the
\* same call again.
C17_Witness ==
  /\ ilast.op = "set_mview"
  /\ ilast.sp # NULL
  /\ ilast.mv = "MV2"
  /\ shared.mailbox_view = "MV2"
  /\ shared.email # NULL
  /\ ilast.sent = <<>>

\* C18: the mailbox of the shared data is the mailbox of the last view set
\* (null for a null view, and before any view is set) and its account is
\* that mailbox's account (null when there is none); a set_mview that
\* changes the mailbox leaves no current Email (email null, email_seq 0) and
\* one that does not leaves email and email_seq as they were.
C18_NoStaleEmail ==
  [][/\ (wdata' # NULL
         => (/\ shared'.mailbox = IF lastmv' = NULL THEN NULL ELSE ViewMailbox[lastmv']
             /\ shared'.account = IF shared'.mailbox = NULL
                                    THEN NULL
                                    ELSE MailboxAccount[shared'.mailbox]))
     /\ (ilast'.op = "set_mview" /\ shared'.mailbox # shared.mailbox
         => (shared'.email = NULL /\ shared'.email_seq = 0))
     /\ (ilast'.op = "set_mview" /\ shared'.mailbox = shared.mailbox
         => (shared'.email = shared.email /\ shared'.email_seq = shared.email_seq))]_vars

\* A change of mailbox that cleared a selected Email.
C18_Witness ==
  /\ ilast.op = "set_mview"
  /\ ilast.mv = "MV3"
  /\ Len(ilast.sent) = 1
  /\ NT_INDEX_EMAIL \in ilast.sent[1].event_subtype
  /\ NT_INDEX_MVIEW \in ilast.sent[1].event_subtype
  /\ NT_INDEX_ACCOUNT \in ilast.sent[1].event_subtype
  /\ shared.email = NULL
  /\ shared.email_seq = 0

\* C19: index_shared_data_set_email on a shared data sends one NT_INDEX
\* notification of subtype NT_INDEX_EMAIL when the Email's address or its
\* sequence number (0 for a null Email) differs from the stored pair, and
\* otherwise sends nothing and changes nothing; after it the stored pair is
\* that of the Email; on a null shared data it does nothing.
C19_SetEmail ==
  [][ilast'.op = "set_email"
     => IF ilast'.sp = NULL
          THEN shared' = shared /\ notifier' = notifier /\ ilast'.sent = <<>>
          ELSE LET e == ilast'.e
                   seq == IF e = NoEmail THEN 0 ELSE e.sequence
               IN /\ shared'.email = e.ptr
                  /\ shared'.email_seq = seq
                  /\ IF shared.email # e.ptr \/ shared.email_seq # seq
                       THEN /\ Len(ilast'.sent) = 1
                            /\ ilast'.sent[1].event_type = NT_INDEX
                            /\ ilast'.sent[1].event_subtype = {NT_INDEX_EMAIL}
                            /\ ilast'.sent[1].event_data = shared'
                            /\ ilast'.sent[1].live
                       ELSE ilast'.sent = <<>> /\ shared' = shared]_vars

\* An Email selected at the address of the Email selected before, which had
\* another sequence number.
C19_Witness ==
  /\ ilast.op = "set_email"
  /\ ilast.sp # NULL
  /\ ilast.e = Email(2)
  /\ cur = Email(2)
  /\ Len(ilast.sent) = 1
  /\ ilast.sent[1].first = FALSE
  /\ shared.email_seq = 2

\* C20: index_shared_data_new sends NT_INDEX_ADD, the first notification of
\* the instance; index_shared_data_free on a reference that holds an
\* instance sends NT_INDEX_DELETE once, through a Notify object not yet
\* released, releases the object and leaves null in the reference; on a null
\* reference or a reference that holds null it sends nothing and frees
\* nothing; and no notification is sent through a Notify object after its
\* NT_INDEX_DELETE.
C20_Lifecycle ==
  [][/\ (ilast'.op = "new"
         => (/\ Len(ilast'.sent) = 1
             /\ ilast'.sent[1].event_type = NT_INDEX
             /\ ilast'.sent[1].event_subtype = {NT_INDEX_ADD}
             /\ ilast'.sent[1].first
             /\ wdata' = SHARED))
     /\ (ilast'.op = "free" /\ ilast'.ptr # NULL /\ wdata # NULL
         => (/\ Len(ilast'.sent) = 1
             /\ ilast'.sent[1].event_type = NT_INDEX
             /\ ilast'.sent[1].event_subtype = {NT_INDEX_DELETE}
             /\ ilast'.sent[1].event_data = shared
             /\ notifier.live
             /\ ~notifier'.live
             /\ wdata' = NULL))
     /\ (ilast'.op = "free" /\ (ilast'.ptr = NULL \/ wdata = NULL)
         => (/\ ilast'.sent = <<>>
             /\ notifier' = notifier
             /\ shared' = shared
             /\ wdata' = wdata))
     /\ \A i \in 1..Len(ilast'.sent) :
          /\ ilast'.sent[i].live
          /\ ~ilast'.sent[i].after_delete
          /\ ilast'.sent[i].first <=> ilast'.sent[i].event_subtype = {NT_INDEX_ADD}]_vars

\* A second free through the reference the first free left null.
C20_Witness ==
  /\ ilast.op = "free"
  /\ ilast.ptr = "&wdata"
  /\ ilast.sent = <<>>
  /\ wdata = NULL
  /\ notifier.deleted
  /\ ~notifier.live

============================================================================
